---- MODULE Spec2Model ----
(***************************************************************************)
(* A model of pyscicat's dataset staging and upload code:                  *)
(*   pyscicat/dataset.py        File, DatasetRENAMEME, _ensure_source_folder *)
(*                              ScientificMetadata, _wrap_model             *)
(*   pyscicat/ingest/upload.py  upload_dataset_and_files                   *)
(*   pyscicat/tests/test_upload.py  FakeUpload (the uploader of the tests) *)
(*                                                                         *)
(* Python values are represented as follows.                               *)
(*   Optional[T]   None is <<>>, a value v is <<v>>.                        *)
(*   path strings  [abs, parts]: whether the string starts with "/" and    *)
(*                 its "/"-separated components; a component may be ""     *)
(*                 (from "a//b" or a trailing "/") or ".".                 *)
(*   pathlib.Path  the same record with the "" and "." components removed, *)
(*                 which is what Path(str) keeps; str(Path) is that        *)
(*                 normal form read as a string.                           *)
(***************************************************************************)
EXTENDS Integers, Sequences, FiniteSets, TLC

VARIABLES
    api,        \* which entry point the caller's program drives
    stage,      \* the caller's DatasetRENAMEME (self)
    prepared,   \* Optional: the stage returned by prepare_as_new
    pc,         \* position inside upload_new_dataset_now
    target,     \* which object upload's local `dset` names: "self" | "prepared"
    k,          \* number of files of dset.files the put loop has passed
    uploader,   \* Optional: the transfer agent made by uploader_factory
    catalog,    \* what the ScicatClient has been asked to create
    raised,     \* Optional: the exception that left the running call
    uuids,      \* how many ids uuid4 has handed out
    ingest,     \* state of one call of upload_dataset_and_files
    origin,     \* the call that made the caller's stage, with its arguments
    observed    \* the caller's last operation on the stage and its outcome

vars == <<api, stage, prepared, pc, target, k, uploader, catalog, raised,
          uuids, ingest, origin,
         observed>>

\* ------------------------------------------------------------------ bounds

MaxFiles == 2
MaxUuids == 1
MaxIngestFiles == 2
MaxUploaded == 3
MaxBlocks == 2        \* orig datablocks the catalog reports for one dataset

\* ------------------------------------------------------------ Python values

None == <<>>
Some(v) == <<v>>
IsNone(o) == o = <<>>
The(o) == o[1]

Str(abs, parts) == [abs |-> abs, parts |-> parts]

RECURSIVE SumSeq(_)
SumSeq(s) == IF s = <<>> THEN 0 ELSE Head(s) + SumSeq(Tail(s))

\* ------------------------------------------------------------- pathlib.Path

IsKept(c) == c # "" /\ c # "."

\* Path(s): pathlib drops empty and "." components.
Path(s) == [abs |-> s.abs, parts |-> SelectSeq(s.parts, IsKept)]

\* str(p) of a Path: its normal form as a string.
StrOfPath(p) == Str(p.abs, p.parts)

\* a / b of pathlib: an absolute right operand replaces the left one.
PathJoin(a, b) ==
    IF b.abs THEN b ELSE [abs |-> a.abs, parts |-> a.parts \o b.parts]

\* Path(s).name: the last component, "" when there is none.
PathName(s) ==
    LET p == Path(s)
    IN  IF p.parts = <<>> THEN Str(FALSE, <<>>)
        ELSE Str(FALSE, <<p.parts[Len(p.parts)]>>)

OptPath(o) == IF IsNone(o) THEN None ELSE Some(Path(The(o)))

\* --------------------------------------------------------------- inputs

PlaceholderFolder == Str(FALSE, <<"<PLACEHOLDER>">>)

\* Path strings the caller passes to add_local_files.
LocalPathStrs ==
    { Str(FALSE, <<"dir", "events.nxs">>),
      Str(FALSE, <<".", "run.log">>),
      Str(FALSE, <<"missing.dat">>) }

RelativeTos == { Str(FALSE, <<>>), Str(FALSE, <<"sub">>) }

\* Folder strings the caller assigns to File.source_folder ("up/").
FolderStrs == { Str(FALSE, <<"up", "">>) }

\* The local filesystem: os.stat of a path, None when the file is missing.
Stat(p) ==
    IF p = Path(Str(FALSE, <<"dir", "events.nxs">>))
    THEN Some([st_size |-> 9876, st_mtime |-> [sec |-> 1655210096, usec |-> 250000]])
    ELSE IF p = Path(Str(FALSE, <<".", "run.log">>))
    THEN Some([st_size |-> 123, st_mtime |-> [sec |-> 1655210100, usec |-> 0]])
    ELSE None

\* ------------------------------------------------------------- exceptions

\* An exception as the caller receives it: its class, the call that raised
\* it (the innermost frame of its traceback), the exception that was being
\* handled when it was raised (__context__) and what its message says.
Exc(type, at, context, message) ==
    [type |-> type, at |-> at, context |-> context, message |-> message]

\* An exception that passes through the code unchanged.
Propagated(type, at) == Exc(type, at, None, None)

\* ------------------------------------------------------------------- File

\* File.__init__
File(source_path, source_folder, local_path, model) ==
    [ source_path   |-> Path(source_path),
      source_folder |-> OptPath(source_folder),
      local_path    |-> OptPath(local_path),
      model         |-> model ]

\* File.from_local
from_local(path, relative_to) ==
    File(PathJoin(Path(relative_to), PathName(path)), None, Some(path), None)

\* File.from_scicat that leaves the source folder out.
File_from_scicat_NoFolder(model, sourceFolder) ==
    File(model.path, None, None, Some(model))

\* File.from_scicat
File_from_scicat(model, sourceFolder) ==
    File(model.path, Some(sourceFolder), None, Some(model))

\* File.source_folder setter
set_source_folder(file, value) ==
    [file EXCEPT !.source_folder = OptPath(value)]

\* remote_access_path with the operands of / the wrong way round.
remote_access_path_Swapped(file) ==
    IF IsNone(file.source_folder)
    THEN None
    ELSE Some(PathJoin(file.source_path, The(file.source_folder)))

\* File.remote_access_path
remote_access_path(file) ==
    IF IsNone(file.source_folder)
    THEN None
    ELSE Some(PathJoin(The(file.source_folder), file.source_path))

\* _creation_time_str: st_mtime in UTC, ISO format cut to whole seconds.
creation_time_str(st) == [utc_sec |-> st.st_mtime.sec]

\* DataFile(path=..., size=..., time=...); time is Optional.
DataFile(path, size, time) == [path |-> path, size |-> size, time |-> time]

\* File.with_model_from_local_file: the new File, or the exception raised.
with_model_from_local_file(file) ==
    IF IsNone(file.local_path)
    THEN [ok |-> FALSE, exc |-> "AssertionError"]
    ELSE LET st == Stat(The(file.local_path))
         IN  IF IsNone(st)
             THEN [ok |-> FALSE, exc |-> "FileNotFoundError"]
             ELSE [ok |-> TRUE,
                   file |-> File(file.source_path,
                                 file.source_folder,
                                 file.local_path,
                                 Some(DataFile(StrOfPath(file.source_path),
                                               The(st).st_size,
                                               Some(creation_time_str(The(st))))))]

\* ------------------------------------------------- DerivedDataset, datablock

\* The fields of DerivedDataset the code reads or writes, each Optional.
ModelFields ==
    { "pid", "owner", "ownerGroup", "accessGroups", "sourceFolder", "size",
      "numberOfFiles", "numberOfFilesArchived", "scientificMetadata" }

\* The derived_dataset fixture of the tests.
FixtureModel ==
    [ pid                   |-> None,
      owner                 |-> Some("slartibartfast"),
      ownerGroup            |-> Some("ownerGroup"),
      accessGroups          |-> Some(<<"group1", "group2">>),
      sourceFolder          |-> Some(Str(FALSE, <<"UPLOAD">>)),
      size                  |-> None,
      numberOfFiles         |-> None,
      numberOfFilesArchived |-> None,
      scientificMetadata    |-> None ]

\* Fields of a record that carries an id and derived fields but no
\* sourceFolder, as the catalog hands them out (dataset_json).
StoredModel ==
    [ pid                   |-> Some([src |-> "caller", n |-> 0]),
      owner                 |-> Some("marvin"),
      ownerGroup            |-> Some("group_o"),
      accessGroups          |-> None,
      sourceFolder          |-> None,
      size                  |-> Some(168456),
      numberOfFiles         |-> Some(2),
      numberOfFilesArchived |-> Some(2),
      scientificMetadata    |-> None ]

\* uuid4(): the n-th id handed out; no two calls return the same one.
uuid4(n) == [src |-> "uuid4", n |-> n]

\* {**a, **b} over dicts built with exclude_none: a None entry is an absent key.
DictUpdate(a, b) ==
    [f \in DOMAIN a |-> IF IsNone(b[f]) THEN a[f] ELSE b[f]]

NoKwargs == [f \in ModelFields |-> None]

\* DatasetRENAMEME.__init__
Dataset(model, files, datablock) ==
    [model |-> model, files |-> files, datablock |-> datablock]

\* DatasetRENAMEME.new
new(model, kwargs) ==
    LET model_dict == DictUpdate(DictUpdate(NoKwargs, model), kwargs)
        with_default ==
            IF IsNone(model_dict.sourceFolder)
            THEN [model_dict EXCEPT !.sourceFolder = Some(PlaceholderFolder)]
            ELSE model_dict
    IN  Dataset(with_default, <<>>, None)

\* add_files that leaves out the files the stage already has.
add_files_Dedups(self, files) ==
    [self EXCEPT !.files =
        @ \o SelectSeq(files,
                       LAMBDA f : \A i \in 1..Len(self.files) : self.files[i] # f)]

\* add_files that also gives the stage an (empty) datablock.
add_files_MakesDatablock(self, files) ==
    [self EXCEPT !.files = @ \o files,
                 !.datablock = Some([dataFileList |-> <<>>])]

\* DatasetRENAMEME.add_files
add_files(self, files) == [self EXCEPT !.files = @ \o files]

\* DatasetRENAMEME.add_local_files
add_local_files(self, paths, relative_to) ==
    add_files(self, [i \in 1..Len(paths) |-> from_local(paths[i], relative_to)])

\* OrigDatablock(size=..., dataFileList=..., datasetId=..., ...)
OrigDatablock(size, dataFileList, datasetId, ownerGroup, accessGroups) ==
    [ size         |-> size,
      dataFileList |-> dataFileList,
      datasetId    |-> datasetId,
      ownerGroup   |-> ownerGroup,
      accessGroups |-> accessGroups ]

FileModel(file) == The(file.model)
FileSize(file) == The(file.model).size

\* PreparedModel with the dict built the other way round, so that a value
\* the receiver's model already carries wins over the computed one.
PreparedModel_ReceiverWins(model, dataset_id, numberOfFiles, size) ==
    DictUpdate([model EXCEPT
                   !.pid = Some(dataset_id),
                   !.numberOfFiles = Some(numberOfFiles),
                   !.numberOfFilesArchived = None,
                   !.size = Some(size),
                   !.sourceFolder = Some(PlaceholderFolder)],
               model)

\* Lines 246-255: the DerivedDataset of the new stage, the receiver's fields
\* overridden by the computed ones.
PreparedModel(model, dataset_id, numberOfFiles, size) ==
    [model EXCEPT
        !.pid = Some(dataset_id),
        !.numberOfFiles = Some(numberOfFiles),
        !.numberOfFilesArchived = None,
        !.size = Some(size),
        !.sourceFolder = Some(PlaceholderFolder)]

\* DatasetRENAMEME.prepare_as_new: the new stage, or the exception of the
\* first file whose with_model_from_local_file raises.
prepare_as_new(self, dataset_id) ==
    LET made   == [i \in 1..Len(self.files) |->
                       with_model_from_local_file(self.files[i])]
        failed == {i \in 1..Len(made) : ~made[i].ok}
    IN  IF failed # {}
        THEN [ok |-> FALSE,
              exc |-> made[CHOOSE i \in failed : \A j \in failed : i <= j].exc]
        ELSE
          LET files      == [i \in 1..Len(made) |-> made[i].file]
              total_size == SumSeq([i \in 1..Len(files) |-> FileSize(files[i])])
              datablock  == OrigDatablock(total_size,
                                          [i \in 1..Len(files) |-> FileModel(files[i])],
                                          dataset_id,
                                          self.model.ownerGroup,
                                          self.model.accessGroups)
              model      == PreparedModel(self.model, dataset_id, Len(files),
                                          total_size)
          IN  [ok |-> TRUE, dset |-> Dataset(model, files, Some(datablock))]

\* _ensure_source_folder: the folder string, or the RuntimeError raised.
\* The files come back too: a target_folder is written into each of them.
ensure_source_folder(files, target_folder) ==
    IF ~IsNone(target_folder)
    THEN [ok |-> TRUE,
          files |-> [i \in 1..Len(files) |->
                        set_source_folder(files[i], Some(Path(The(target_folder))))],
          folder |-> The(target_folder)]
    ELSE
      LET source_folders ==
            { StrOfPath(The(files[i].source_folder)) :
                i \in {j \in 1..Len(files) : ~IsNone(files[j].source_folder)} }
      IN  IF Cardinality(source_folders) >= 2
          THEN [ok |-> FALSE, exc |-> "RuntimeError", why |-> "not unique"]
          ELSE IF source_folders = {}
          THEN [ok |-> FALSE, exc |-> "RuntimeError", why |-> "none set"]
          ELSE [ok |-> TRUE, files |-> files,
                folder |-> CHOOSE f \in source_folders : TRUE]

\* _get_orig_datablock that answers an empty list with an empty datablock.
get_orig_datablock_AllowsNone(dblock_json) ==
    IF Len(dblock_json) > 1
    THEN [ok |-> FALSE, exc |-> "NotImplementedError"]
    ELSE IF Len(dblock_json) = 0
    THEN [ok |-> TRUE,
          dblock |-> OrigDatablock(0, <<>>, [src |-> "caller", n |-> 0],
                                   None, None)]
    ELSE [ok |-> TRUE, dblock |-> dblock_json[1]]

\* _get_orig_datablock that takes the first datablock of several.
get_orig_datablock_TakesFirst(dblock_json) ==
    IF Len(dblock_json) = 0
    THEN [ok |-> FALSE, exc |-> "NotImplementedError"]
    ELSE [ok |-> TRUE, dblock |-> dblock_json[1]]

\* _get_orig_datablock, given what client.get_dataset_origdatablocks returned.
get_orig_datablock(dblock_json) ==
    IF Len(dblock_json) # 1
    THEN [ok |-> FALSE, exc |-> "NotImplementedError"]
    ELSE [ok |-> TRUE, dblock |-> dblock_json[1]]

\* DatasetRENAMEME.from_scicat, given what the client returned for the pid:
\* the stage, or the exception of _get_orig_datablock.  DerivedDataset and
\* RawDataset both carry the fields of the record modelled here.
from_scicat(dset_json, dblocks_json) ==
    LET model == dset_json
        got   == get_orig_datablock(dblocks_json)
    IN  IF ~got.ok
        THEN [ok |-> FALSE, exc |-> got.exc]
        ELSE
          LET dblock_json == got.dblock
              files == [i \in 1..Len(dblock_json.dataFileList) |->
                           File_from_scicat(dblock_json.dataFileList[i],
                                            The(model.sourceFolder))]
              dblock == [dblock_json EXCEPT
                            !.dataFileList =
                                [i \in 1..Len(files) |-> FileModel(files[i])]]
          IN  [ok |-> TRUE, dset |-> Dataset(model, files, Some(dblock))]

\* ------------------------------------------------------ more inputs

\* The entries of the datablocks_json fixture.
CatalogEntries ==
    { DataFile(Str(FALSE, <<"file1.nxs">>), 123456, Some([utc_sec |-> 1643805296])),
      DataFile(Str(FALSE, <<"sub", "file2.nxs">>), 45000, Some([utc_sec |-> 1643806472])) }

CatalogFolder == Str(TRUE, <<"remote", "source">>)

\* The record of dataset_json.
CatalogModel == [StoredModel EXCEPT !.sourceFolder = Some(CatalogFolder)]

\* An orig datablock as the catalog returns it.
DatablockJson(id, size, dataFileList) ==
    [id |-> id] @@
    OrigDatablock(size, dataFileList, The(StoredModel.pid),
                  Some("group_o"), Some(<<"group1">>))

\* The orig datablocks the catalog holds: the one of datablocks_json, and
\* one whose only entry has a path that is not in pathlib's normal form.
StoredDatablocks ==
    { DatablockJson("fedcba98", 168456,
        << DataFile(Str(FALSE, <<"file1.nxs">>), 123456,
                    Some([utc_sec |-> 1643805296])),
           DataFile(Str(FALSE, <<"sub", "file2.nxs">>), 45000,
                    Some([utc_sec |-> 1643806472])) >>),
      DatablockJson("01234567", 77,
        << DataFile(Str(FALSE, <<"raw", "", "file3.nxs">>), 77,
                    Some([utc_sec |-> 1643806500])) >>) }

\* The record the catalog returns for a pid under which it holds the given
\* orig datablocks: that of dataset_json, its size and numberOfFiles being
\* those of the datablocks.
CatalogRecord(dblocks_json) ==
    [CatalogModel EXCEPT
        !.size = Some(SumSeq([i \in 1..Len(dblocks_json) |->
                                 dblocks_json[i].size])),
        !.numberOfFiles =
            Some(SumSeq([i \in 1..Len(dblocks_json) |->
                            Len(dblocks_json[i].dataFileList)])),
        !.numberOfFilesArchived = None]

\* Files the caller builds with File.from_scicat and passes to add_files.
CallerFiles ==
    { File_from_scicat(
        DataFile(Str(FALSE, <<"sub", "file2.nxs">>), 45000,
                 Some([utc_sec |-> 1643806472])),
        CatalogFolder) }

\* remote_upload_path of the transfer agent the factory returns.
RemoteBases == { Path(Str(TRUE, <<"remote", "upload">>)) }

\* Exceptions the ScicatClient raises; the first is ScicatCommError itself.
GatewayErrors == { "ScicatCommError", "ConnectionError" }

\* Exceptions a transfer agent's put raises.
PutErrors == { "RuntimeError" }

SeqsUpTo(S, n) == UNION { [1..m -> S] : m \in 0..n }

\* ------------------------------------------------- accessors (_wrap_model)

\* The exclude argument of @_wrap_model on DatasetRENAMEME.
Excluded == { "numberOfFiles", "size", "type" }

\* _make_model_accessor: the getter, and the stage after the setter.
model_accessor_get(self, field_name) == self.model[field_name]

\* A setter that rebuilds the record from the one value it is given.
model_accessor_set_Rebuilds(self, field_name, val) ==
    [self EXCEPT !.model = [NoKwargs EXCEPT ![field_name] = val]]

model_accessor_set(self, field_name, val) ==
    [self EXCEPT !.model[field_name] = val]

\* A property for an excluded field whose setter writes the record.
raising_accessor_set_Writes(self, field_name, val) ==
    [ok |-> TRUE, self |-> [self EXCEPT !.model[field_name] = val]]

\* _make_raising_accessor: property(impl) has a getter that raises and no
\* setter, so an assignment raises AttributeError as well.
raising_accessor_get(self, field_name) ==
    [ok |-> FALSE, exc |-> "AttributeError"]

raising_accessor_set(self, field_name, val) ==
    [ok |-> FALSE, exc |-> "AttributeError"]

\* dset.<field>, with the property _wrap_model installed for the field.
stage_getattr(self, field) ==
    IF field \in Excluded
    THEN raising_accessor_get(self, field)
    ELSE [ok |-> TRUE, value |-> model_accessor_get(self, field)]

\* dset.<field> = val
stage_setattr(self, field, val) ==
    IF field \in Excluded
    THEN raising_accessor_set(self, field, val)
    ELSE [ok |-> TRUE, self |-> model_accessor_set(self, field, val)]

\* ------------------------------------------------------ ScientificMetadata

\* A Python dict: its items in insertion order, no key twice.
DictKeys(d) == [i \in 1..Len(d) |-> d[i].key]
DictHas(d, key) == \E i \in 1..Len(d) : d[i].key = key
DictGet(d, key) == d[CHOOSE i \in 1..Len(d) : d[i].key = key].value

\* d[key] = value: a key the dict holds keeps its place, a new one goes last.
DictSet(d, key, value) ==
    IF DictHas(d, key)
    THEN [i \in 1..Len(d) |->
             IF d[i].key = key THEN [key |-> key, value |-> value] ELSE d[i]]
    ELSE Append(d, [key |-> key, value |-> value])

\* del d[key], for a key the dict holds.
DictDel(d, key) ==
    LET at == CHOOSE i \in 1..Len(d) : d[i].key = key
    IN  SubSeq(d, 1, at - 1) \o SubSeq(d, at + 1, Len(d))

\* ScientificMetadata._get_dict_or_empty: `field or {}` is the field's own
\* dict when that is non-empty, and a new empty dict when the field is None
\* or an empty dict.
get_dict_or_empty(parent) ==
    IF IsNone(parent.scientificMetadata) \/ The(parent.scientificMetadata) = <<>>
    THEN [own |-> FALSE, dict |-> <<>>]
    ELSE [own |-> TRUE, dict |-> The(parent.scientificMetadata)]

\* ScientificMetadata.__getitem__
getitem(parent, key) ==
    LET d == get_dict_or_empty(parent).dict
    IN  IF DictHas(d, key)
        THEN [ok |-> TRUE, value |-> DictGet(d, key)]
        ELSE [ok |-> FALSE, exc |-> "KeyError"]

\* ScientificMetadata.__setitem__ that never writes the field of a parent
\* whose field is None.
setitem_DropsFirst(parent, key, value) ==
    IF IsNone(parent.scientificMetadata)
    THEN parent
    ELSE [parent EXCEPT
             !.scientificMetadata = Some(DictSet(The(@), key, value))]

\* ScientificMetadata.__setitem__: the parent after the call.
setitem(parent, key, value) ==
    IF IsNone(parent.scientificMetadata)
    THEN [parent EXCEPT
             !.scientificMetadata = Some(<<[key |-> key, value |-> value]>>)]
    ELSE [parent EXCEPT
             !.scientificMetadata = Some(DictSet(The(@), key, value))]

\* ScientificMetadata.__delitem__: the parent after the call, or KeyError.
\* A delete on the new empty dict of _get_dict_or_empty finds no key.
delitem(parent, key) ==
    LET d == get_dict_or_empty(parent)
    IN  IF ~DictHas(d.dict, key)
        THEN [ok |-> FALSE, exc |-> "KeyError"]
        ELSE [ok |-> TRUE,
              parent |-> [parent EXCEPT
                  !.scientificMetadata = Some(DictDel(d.dict, key))]]

\* list(ScientificMetadata.__iter__()), and __len__
meta_iter(parent) == DictKeys(get_dict_or_empty(parent).dict)
meta_len(parent) == Len(get_dict_or_empty(parent).dict)

\* ------------------------------------------------------------------- Init

IdleIngest ==
    [ pc       |-> "idle",
      upload   |-> "FakeUpload",
      uploaded |-> <<>>,
      before   |-> <<>>,
      folder   |-> Str(FALSE, <<"UPLOAD">>),
      files    |-> <<>>,
      requests |-> <<>>,
      reverts  |-> <<>>,
      raised   |-> None ]

\* The catalog behind the ScicatClient: the records and datablocks it has
\* stored, and the calls it has answered with an exception.
NoCatalog == [datasets |-> <<>>, datablocks |-> <<>>, errors |-> <<>>]

\* The calls of DatasetRENAMEME.new the caller's program starts with: a base
\* record and no keyword arguments, or no record (model=None, an empty
\* model_dict) and the fields as keyword arguments.
NewCalls ==
    { [model |-> FixtureModel, kwargs |-> NoKwargs],
      [model |-> NoKwargs, kwargs |-> StoredModel] }

\* How the caller came by the stage it holds.
ByNew(call) == [by |-> "new", model |-> call.model, kwargs |-> call.kwargs]
ByPrepareAsNew == [by |-> "prepare_as_new"]

\* The caller's last operation on its stage: the constructor call, or
\* one whose outcome is the stage itself.
JustMade == [op |-> "made"]
Other == [op |-> "other"]

Init ==
    /\ api \in {"dataset", "ingest", "fields", "fetch"}
    /\ \E call \in NewCalls :
          /\ stage = new(call.model, call.kwargs)
          /\ origin = ByNew(call)
    /\ observed = JustMade
    /\ prepared = None
    /\ pc = "idle"
    /\ target = "self"
    /\ k = 0
    /\ uploader = None
    /\ catalog = NoCatalog
    /\ raised = None
    /\ uuids = 0
    /\ ingest = IdleIngest

\* ------------------------------------------------- the caller, before upload

Idle == api = "dataset" /\ pc = "idle"

\* The caller edits the stage it holds; once it has called prepare_as_new it
\* goes on with the stage that returned (Adopt) or uploads.
Editing == Idle /\ IsNone(prepared)

\* The caller's program that reads and writes fields and metadata of its
\* stage; it adds files as well, always the same ones.
FieldAccess == api = "fields" /\ pc = "idle"

Adding == Editing \/ FieldAccess
CallerPathStrs ==
    IF api = "fields" THEN { Str(FALSE, <<".", "run.log">>) } ELSE LocalPathStrs
CallerRelativeTos ==
    IF api = "fields" THEN { Str(FALSE, <<"sub">>) } ELSE RelativeTos

upload_vars == <<pc, target, k, uploader, catalog>>

\* dset.add_local_files(*paths, relative_to=...)
AddLocalFiles ==
    /\ Adding
    /\ \E paths \in SeqsUpTo(CallerPathStrs, MaxFiles - Len(stage.files)),
          relative_to \in CallerRelativeTos :
          /\ paths # <<>>
          /\ stage' = add_local_files(stage, paths, relative_to)
    /\ raised' = None
    /\ observed' = Other
    /\ UNCHANGED <<api, prepared, upload_vars, uuids, ingest, origin>>

\* dset.add_files(file)
AddFiles ==
    /\ Adding
    /\ Len(stage.files) < MaxFiles
    /\ \E file \in CallerFiles :
          stage' = add_files(stage, <<file>>)
    /\ raised' = None
    /\ observed' = Other
    /\ UNCHANGED <<api, prepared, upload_vars, uuids, ingest, origin>>

\* dset.files[i].source_folder = value
SetSourceFolder ==
    /\ Editing
    /\ \E i \in 1..Len(stage.files),
          value \in {None} \cup {Some(f) : f \in FolderStrs} :
          stage' = [stage EXCEPT !.files[i] = set_source_folder(@, value)]
    /\ raised' = None
    /\ observed' = Other
    /\ UNCHANGED <<api, prepared, upload_vars, uuids, ingest, origin>>

\* prepared = dset.prepare_as_new()
PrepareAsNew ==
    /\ Editing
    /\ uuids < MaxUuids
    /\ LET r == prepare_as_new(stage, uuid4(uuids + 1))
       IN  /\ prepared' = IF r.ok THEN Some(r.dset) ELSE prepared
           /\ raised' = IF r.ok THEN None
                        ELSE Some(Propagated(r.exc, "prepare_as_new"))
           /\ uuids' = IF r.ok THEN uuids + 1 ELSE uuids
    /\ observed' = Other
    /\ UNCHANGED <<api, stage, upload_vars, ingest, origin>>

\* Folder strings the caller passes as target_folder.
TargetFolders == { Str(TRUE, <<"remote", "target">>) }

\* prepared = dset.prepare_as_new(target_folder): the signature of line 235
\* is prepare_as_new(self), so the call raises TypeError in the caller's
\* frame, before the body runs, whether the argument is positional or a
\* keyword.
PrepareAsNewTargetFolder ==
    /\ Editing
    /\ \E target_folder \in TargetFolders :
          /\ raised' = Some(Exc("TypeError", "caller", None,
                                Some([unexpected |-> "target_folder"])))
          /\ observed' = [ op |-> "prepare_as_new",
                           target_folder |-> target_folder ]
    /\ UNCHANGED <<api, stage, prepared, upload_vars, uuids, ingest, origin>>

\* dset = prepared: the caller goes on with the stage prepare_as_new returned.
Adopt ==
    /\ Idle
    /\ ~IsNone(prepared)
    /\ stage' = The(prepared)
    /\ prepared' = None
    /\ raised' = None
    /\ origin' = ByPrepareAsNew
    /\ observed' = Other
    /\ UNCHANGED <<api, upload_vars, uuids, ingest>>

\* ----------------------------------------------------- the caller, fetch

ByFromScicat == [by |-> "from_scicat"]

\* dset = DatasetRENAMEME.from_scicat(client, pid): the client returns the
\* record and some orig datablocks; the caller keeps the stage it held when
\* the call raises.
FromScicat ==
    /\ api = "fetch"
    /\ pc = "idle"
    /\ \E dblocks_json \in SeqsUpTo(StoredDatablocks, MaxBlocks) :
          LET r == from_scicat(CatalogRecord(dblocks_json), dblocks_json)
          IN  /\ stage' = IF r.ok THEN r.dset ELSE stage
              /\ origin' = IF r.ok THEN ByFromScicat ELSE origin
              /\ raised' = IF r.ok THEN None
                           ELSE Some(Propagated(r.exc, "_get_orig_datablock"))
              /\ observed' = [ op |-> "from_scicat",
                               dataset |-> CatalogRecord(dblocks_json),
                               dblocks |-> dblocks_json,
                               result |-> IF r.ok THEN Some(r.dset) ELSE None,
                               held |-> stage ]
    /\ UNCHANGED <<api, prepared, upload_vars, uuids, ingest>>

\* client.get_dataset_by_pid or client.get_dataset_origdatablocks raises:
\* from_scicat has no handler and returns no stage.
FromScicatRaises ==
    /\ api = "fetch"
    /\ pc = "idle"
    /\ \E e \in GatewayErrors,
          at \in {"get_dataset_by_pid", "get_dataset_origdatablocks"} :
          /\ raised' = Some(Propagated(e, at))
          /\ observed' = [ op |-> "from_scicat_raised", held |-> stage ]
    /\ UNCHANGED <<api, stage, prepared, upload_vars, uuids, ingest, origin>>

\* ------------------------------------- the caller, fields and metadata

\* The keys and values the caller's program puts under dset.meta.
MetaKeys == { "a", "b" }
MetaValues == { "3 m", "-1.2 s" }

field_vars == <<api, prepared, upload_vars, uuids, ingest, origin>>

\* The fields the caller's program reads and assigns, and what it assigns.
AttrFields == { "owner", "ownerGroup", "size", "numberOfFiles" }
AttrValue(field) ==
    CASE field = "owner"         -> Some("marvin")
      [] field = "ownerGroup"    -> Some("group_z")
      [] field = "size"          -> Some(1)
      [] field = "numberOfFiles" -> Some(2)

\* _ = dset.<field>
GetAttr ==
    /\ FieldAccess
    /\ \E field \in AttrFields :
          LET r == stage_getattr(stage, field)
          IN  /\ raised' = IF r.ok THEN None
                           ELSE Some(Propagated(r.exc, "getattr"))
              /\ observed' = [ op |-> "getattr", field |-> field,
                               result |-> IF r.ok THEN Some(r.value) ELSE None,
                               before |-> stage.model ]
    /\ UNCHANGED <<stage, field_vars>>

\* dset.<field> = val
SetAttr ==
    /\ FieldAccess
    /\ \E field \in AttrFields :
          LET r == stage_setattr(stage, field, AttrValue(field))
          IN  /\ stage' = IF r.ok THEN r.self ELSE stage
              /\ raised' = IF r.ok THEN None
                           ELSE Some(Propagated(r.exc, "setattr"))
              /\ observed' = [ op |-> "setattr", field |-> field,
                               value |-> AttrValue(field),
                               before |-> stage.model ]
    /\ UNCHANGED field_vars

\* dset.meta[key] = value
MetaSet ==
    /\ FieldAccess
    /\ \E key \in MetaKeys, value \in MetaValues :
          /\ stage' = [stage EXCEPT !.model = setitem(@, key, value)]
          /\ observed' = [ op |-> "meta_set", key |-> key, value |-> value,
                           before |-> stage.model ]
    /\ raised' = None
    /\ UNCHANGED field_vars

\* del dset.meta[key]
MetaDel ==
    /\ FieldAccess
    /\ \E key \in MetaKeys :
          LET r == delitem(stage.model, key)
          IN  /\ stage' = IF r.ok THEN [stage EXCEPT !.model = r.parent]
                                  ELSE stage
              /\ raised' = IF r.ok THEN None
                           ELSE Some(Propagated(r.exc, "__delitem__"))
              /\ observed' = [ op |-> "meta_del", key |-> key,
                               before |-> stage.model ]
    /\ UNCHANGED field_vars

\* dset.meta[key]
MetaGet ==
    /\ FieldAccess
    /\ \E key \in MetaKeys :
          LET r == getitem(stage.model, key)
          IN  /\ raised' = IF r.ok THEN None
                           ELSE Some(Propagated(r.exc, "__getitem__"))
              /\ observed' = [ op |-> "meta_get", key |-> key,
                               result |-> IF r.ok THEN Some(r.value) ELSE None,
                               before |-> stage.model ]
    /\ UNCHANGED <<stage, field_vars>>

\* ------------------------------------------------ upload_new_dataset_now

\* The stage the local variable dset of upload_new_dataset_now names.
Dset == IF target = "self" THEN stage ELSE The(prepared)


\* uploader_factory(dataset_id=...): the agent with the calls it has served,
\* puts that returned, puts that raised (failed) and revert_puts.
NewUploader(dataset_id, remote_upload_path) ==
    [ dataset_id         |-> dataset_id,
      remote_upload_path |-> remote_upload_path,
      puts               |-> <<>>,
      failed             |-> <<>>,
      reverts            |-> <<>> ]

\* The arguments of uploader.put and uploader.revert_put for a file.
TransferArgs(file) ==
    [local |-> file.local_path, remote |-> remote_access_path(file)]

\* The server's answer to datasets_create: the pid it stored the record
\* under, which is the pid sent or that pid behind the server's prefix.
ServerPid(pid, prefixed) ==
    IF prefixed THEN [src |-> "prefixed", of |-> pid] ELSE pid

\* The test of line 259 always true: every upload prepares a new stage.
NeedsPrepare_Always(self) == TRUE

\* Line 259: if self._datablock is None
NeedsPrepare(self) == IsNone(self.datablock)

\* Lines 259-264: pick dset, make the uploader, set dset.sourceFolder.
UploadBegin ==
    /\ Idle
    /\ \/ ~IsNone(stage.datablock)
       \/ uuids < MaxUuids
    /\ LET fresh == NeedsPrepare(stage)
           r     == IF fresh
                    THEN prepare_as_new(stage, uuid4(uuids + 1))
                    ELSE [ok |-> TRUE, dset |-> stage]
       IN  IF ~r.ok
           THEN /\ raised' = Some(Propagated(r.exc, "prepare_as_new"))
                /\ pc' = "done"
                /\ UNCHANGED <<stage, prepared, target, k, uploader, uuids>>
           ELSE \E base \in RemoteBases :
                LET dset == [r.dset EXCEPT
                                !.model.sourceFolder = Some(StrOfPath(base))]
                IN  /\ uploader' = Some(NewUploader(dset.model.pid, base))
                    /\ target' = IF fresh THEN "prepared" ELSE "self"
                    /\ stage' = IF fresh THEN stage ELSE dset
                    /\ prepared' = IF fresh THEN Some(dset) ELSE prepared
                    /\ uuids' = IF fresh THEN uuids + 1 ELSE uuids
                    /\ k' = 0
                    /\ pc' = IF dset.files = <<>> THEN "create" ELSE "put"
                    /\ raised' = None
    /\ observed' = Other
    /\ UNCHANGED <<api, catalog, ingest, origin>>

\* Line 266 left out: the file keeps the source_folder it has.
WithFolderSet_Skips(dset, i) == dset

\* dset with its i-th file's source_folder set to dset.sourceFolder (line 266).
WithFolderSet(dset, i) ==
    [dset EXCEPT !.files[i] = set_source_folder(@, dset.model.sourceFolder)]

\* StoreDset for a prepare_as_new that hands its receiver's own objects to
\* the stage it returns: what is written to dset shows on the receiver.
StoreDset_Aliased(dset) ==
    /\ stage' = dset
    /\ prepared' = IF target = "self" THEN prepared ELSE Some(dset)

\* Where the writes of upload_new_dataset_now to dset land.
StoreDset(dset) ==
    /\ stage' = IF target = "self" THEN dset ELSE stage
    /\ prepared' = IF target = "self" THEN prepared ELSE Some(dset)

\* Lines 265-267, one turn of the loop, put returns.
Put ==
    /\ api = "dataset" /\ pc = "put"
    /\ LET dset == WithFolderSet(Dset, k + 1)
       IN  /\ StoreDset(dset)
           /\ uploader' = Some([The(uploader) EXCEPT
                                  !.puts = Append(@, TransferArgs(dset.files[k + 1]))])
           /\ k' = k + 1
           /\ pc' = IF k + 1 = Len(dset.files) THEN "create" ELSE "put"
    /\ UNCHANGED <<api, target, catalog, raised, uuids, ingest, origin, observed>>

\* PutRaises with the exception of put swallowed: the loop goes on.
PutRaises_Swallowed ==
    /\ api = "dataset" /\ pc = "put"
    /\ LET dset == WithFolderSet(Dset, k + 1)
       IN  /\ StoreDset(dset)
           /\ uploader' = Some([The(uploader) EXCEPT
                                  !.failed = Append(@, TransferArgs(dset.files[k + 1]))])
           /\ pc' = IF k + 1 = Len(dset.files) THEN "create" ELSE "put"
    /\ k' = k + 1
    /\ UNCHANGED <<api, target, raised, catalog, uuids, ingest, origin, observed>>

\* Lines 265-267, one turn of the loop, put raises: the exception leaves
\* upload_new_dataset_now.
PutRaises ==
    /\ api = "dataset" /\ pc = "put"
    /\ LET dset == WithFolderSet(Dset, k + 1)
       IN  /\ StoreDset(dset)
           /\ uploader' = Some([The(uploader) EXCEPT
                                  !.failed = Append(@, TransferArgs(dset.files[k + 1]))])
    /\ \E e \in PutErrors : raised' = Some(Propagated(e, "put"))
    /\ pc' = "done"
    /\ UNCHANGED <<api, target, k, catalog, uuids, ingest, origin, observed>>

\* RevertAll with the loop stopping one file early.
RevertAll_SkipsLast(up, files) ==
    [up EXCEPT !.reverts =
        @ \o [i \in 1..(Len(files) - 1) |-> TransferArgs(files[i])]]

\* The except ScicatCommError block, lines 271-276: the uploader after
\* revert_put has been called for every file of dset.files.  The agent's
\* revert_put is taken to return: the code has no path for its failure.
RevertAll(up, files) ==
    [up EXCEPT !.reverts = @ \o [i \in 1..Len(files) |-> TransferArgs(files[i])]]

\* Line 278 left out: the datablock keeps the datasetId prepare_as_new gave it.
WithDatasetId_Keeps(dset, dataset_id) == dset

\* Line 278: dset.datablock.datasetId = dataset_id
WithDatasetId(dset, dataset_id) ==
    [dset EXCEPT !.datablock = Some([The(@) EXCEPT !.datasetId = dataset_id])]

\* Which exceptions of datasets_create the handler of line 271 catches.
CaughtByCreateHandler(e) == e = "ScicatCommError"

\* Lines 270 and 278: datasets_create returns a pid, which goes into the
\* datablock.
DatasetsCreate ==
    /\ api = "dataset" /\ pc = "create"
    /\ \E prefixed \in BOOLEAN :
          LET dataset_id == ServerPid(The(Dset.model.pid), prefixed)
              stored     == [Dset.model EXCEPT !.pid = Some(dataset_id)]
          IN  /\ catalog' = [catalog EXCEPT !.datasets = Append(@, stored)]
              /\ StoreDset(WithDatasetId(Dset, dataset_id))
    /\ pc' = "manifest"
    /\ UNCHANGED <<api, target, k, uploader, raised, uuids, ingest, origin, observed>>

\* Lines 269-276: datasets_create raises.
DatasetsCreateRaises ==
    /\ api = "dataset" /\ pc = "create"
    /\ \E e \in GatewayErrors :
          /\ uploader' = IF CaughtByCreateHandler(e)
                         THEN Some(RevertAll(The(uploader), Dset.files))
                         ELSE uploader
          /\ raised' = Some(Propagated(e, "datasets_create"))
          /\ catalog' = [catalog EXCEPT
                            !.errors = Append(@, [call |-> "datasets_create", exc |-> e])]
    /\ pc' = "done"
    /\ UNCHANGED <<api, stage, prepared, target, k, uuids, ingest, origin, observed>>

\* Lines 279-288: datasets_origdatablock_create returns; dset is returned.
OrigdatablockCreate ==
    /\ api = "dataset" /\ pc = "manifest"
    /\ catalog' = [catalog EXCEPT !.datablocks = Append(@, The(Dset.datablock))]
    /\ pc' = "done"
    /\ UNCHANGED <<api, stage, prepared, target, k, uploader, raised, uuids, ingest, origin, observed>>

\* ManifestHandlerRaises with the handler re-raising what it caught.
ManifestHandlerRaises_Reraise(e, dset) ==
    Propagated(e, "datasets_origdatablock_create")

\* The except ScicatCommError block, lines 281-286: the exception that
\* leaves upload_new_dataset_now when datasets_origdatablock_create raises e.
\* The block calls nothing on the uploader or the client.
ManifestHandlerRaises(e, dset) ==
    IF e = "ScicatCommError"
    THEN Exc("RuntimeError", "upload_new_dataset_now", Some(e),
             Some([dataset |-> dset.model.pid, args |-> e,
                   says |-> "uploaded but not linked, fix manually"]))
    ELSE Propagated(e, "datasets_origdatablock_create")

\* Lines 279-286: datasets_origdatablock_create raises.
OrigdatablockCreateRaises ==
    /\ api = "dataset" /\ pc = "manifest"
    /\ \E e \in GatewayErrors :
          /\ raised' = Some(ManifestHandlerRaises(e, Dset))
          /\ catalog' = [catalog EXCEPT
                            !.errors = Append(@, [call |-> "datasets_origdatablock_create",
                                                  exc |-> e])]
    /\ pc' = "done"
    /\ UNCHANGED <<api, stage, prepared, target, k, uploader, uuids, ingest, origin, observed>>

\* ------------------------------------------- ingest.upload_dataset_and_files

\* The data_files fixture of test_upload.py.
IngestDataFiles ==
    { DataFile(Str(FALSE, <<"file1.txt">>), 100, None),
      DataFile(Str(FALSE, <<"file2.nxs">>), 54321, None) }

\* dataset.sourceFolder of the dataset passed in.
IngestFolders == { Str(FALSE, <<"UPLOAD">>), Str(FALSE, <<"elsewhere">>) }

\* The Upload implementations of test_upload.py.
UploadKinds == { "FakeUpload", "RaisingUpload" }

\* Exceptions client.replace_dataset raises (all of them are Exceptions).
ReplaceErrors == { "RuntimeError", "ScicatCommError" }

\* s with its first element equal to x removed: del s[s.index(x)].
RemoveFirst(s, x) ==
    LET i == CHOOSE j \in 1..Len(s) : s[j] = x /\ \A h \in 1..(j - 1) : s[h] # x
    IN  SubSeq(s, 1, i - 1) \o SubSeq(s, i + 1, Len(s))

RECURSIVE RemoveEach(_, _)
RemoveEach(s, files) ==
    IF files = <<>> THEN s
    ELSE RemoveEach(RemoveFirst(s, Head(files)), Tail(files))

\* FakeUpload.__call__ and RaisingUpload.__call__
UploadCall(kind, uploaded, path, files) ==
    IF kind = "RaisingUpload"
    THEN [ok |-> FALSE, exc |-> "RuntimeError", uploaded |-> uploaded]
    ELSE IF path # Str(FALSE, <<"UPLOAD">>)
    THEN [ok |-> FALSE, exc |-> "AssertionError", uploaded |-> uploaded]
    ELSE [ok |-> TRUE, uploaded |-> uploaded \o files]

\* UploadRevert dropping every file equal to one of `files`.
UploadRevert_DropsEqual(uploaded, path, files) ==
    SelectSeq(uploaded, LAMBDA f : \A i \in 1..Len(files) : files[i] # f)

\* FakeUpload.revert; its assert passes whenever __call__ returned.
UploadRevert(uploaded, path, files) == RemoveEach(uploaded, files)

\* What the except Exception block of lines 28-30 does to the uploader's
\* files and to the log of revert calls.
IngestHandler(ing) ==
    [ing EXCEPT
        !.uploaded = UploadRevert(@, ing.folder, ing.files),
        !.reverts  = Append(@, [path |-> ing.folder, files |-> ing.files])]

\* The caller calls upload_dataset_and_files(client, dataset, files, upload);
\* the FakeUpload object is the same one over the calls.
IngestCall ==
    /\ api = "ingest"
    /\ ingest.pc \in {"idle", "done"}
    /\ \E files \in SeqsUpTo(IngestDataFiles, MaxIngestFiles),
          folder \in IngestFolders,
          kind \in UploadKinds :
          /\ Len(ingest.uploaded) + Len(files) <= MaxUploaded
          /\ ingest' = [ingest EXCEPT
                          !.pc = "upload", !.upload = kind,
                          !.before = ingest.uploaded,
                          !.folder = folder, !.files = files,
                          !.requests = <<>>, !.reverts = <<>>,
                          !.raised = None]
    /\ UNCHANGED <<api, stage, prepared, upload_vars, raised, uuids, origin, observed>>

\* Line 25: upload(dataset.sourceFolder, files)
IngestUpload ==
    /\ api = "ingest"
    /\ ingest.pc = "upload"
    /\ LET r == UploadCall(ingest.upload, ingest.uploaded, ingest.folder, ingest.files)
       IN  ingest' = [ingest EXCEPT
                        !.uploaded = r.uploaded,
                        !.pc = IF r.ok THEN "replace" ELSE "done",
                        !.raised = IF r.ok THEN None
                                   ELSE Some(Propagated(r.exc, "upload"))]
    /\ UNCHANGED <<api, stage, prepared, upload_vars, raised, uuids, origin, observed>>

\* Line 27: client.replace_dataset(dataset) returns.
IngestReplace ==
    /\ api = "ingest"
    /\ ingest.pc = "replace"
    /\ ingest' = [ingest EXCEPT
                    !.requests = Append(@, [sourceFolder |-> ingest.folder]),
                    !.pc = "done"]
    /\ UNCHANGED <<api, stage, prepared, upload_vars, raised, uuids, origin, observed>>

\* Lines 27-30: client.replace_dataset(dataset) raises.
IngestReplaceRaises ==
    /\ api = "ingest"
    /\ ingest.pc = "replace"
    /\ \E e \in ReplaceErrors :
          ingest' = [IngestHandler(ingest) EXCEPT
                        !.requests = Append(@, [sourceFolder |-> ingest.folder]),
                        !.pc = "done",
                        !.raised = Some(Propagated(e, "replace_dataset"))]
    /\ UNCHANGED <<api, stage, prepared, upload_vars, raised, uuids, origin, observed>>

\* ------------------------------------------------------------ specification

Next ==
    \/ AddLocalFiles
    \/ AddFiles
    \/ SetSourceFolder
    \/ PrepareAsNew
    \/ PrepareAsNewTargetFolder
    \/ Adopt
    \/ FromScicat
    \/ FromScicatRaises
    \/ GetAttr
    \/ SetAttr
    \/ MetaSet
    \/ MetaDel
    \/ MetaGet
    \/ UploadBegin
    \/ Put
    \/ PutRaises
    \/ DatasetsCreate
    \/ DatasetsCreateRaises
    \/ OrigdatablockCreate
    \/ OrigdatablockCreateRaises
    \/ IngestCall
    \/ IngestUpload
    \/ IngestReplace
    \/ IngestReplaceRaises

Spec == Init /\ [][Next]_vars

\* ================================================================== claims

\* What the claims read off the state of a finished call.
Puts == IF IsNone(uploader) THEN <<>> ELSE The(uploader).puts
FailedPuts == IF IsNone(uploader) THEN <<>> ELSE The(uploader).failed
Reverts == IF IsNone(uploader) THEN <<>> ELSE The(uploader).reverts

UploadDone == api = "dataset" /\ pc = "done"

CreateFailedWith(e) ==
    UploadDone /\ catalog.errors = <<[call |-> "datasets_create", exc |-> e]>>

ManifestFailedWith(e) ==
    /\ UploadDone
    /\ catalog.errors = <<[call |-> "datasets_origdatablock_create", exc |-> e]>>

CreateRequested ==
    \/ catalog.datasets # <<>>
    \/ \E i \in 1..Len(catalog.errors) : catalog.errors[i].call = "datasets_create"

Count(s, x) == Cardinality({i \in 1..Len(s) : s[i] = x})

SameBag(s, t) ==
    \A x \in {s[i] : i \in 1..Len(s)} \cup {t[i] : i \in 1..Len(t)} :
        Count(s, x) = Count(t, x)

\* C1: when every file was placed and datasets_create raised ScicatCommError,
\* revert_put has been called exactly once for each placed file, with the
\* local and remote path its put was called with, and the caller receives
\* that ScicatCommError unchanged.
C1_RollbackOnCommError ==
    CreateFailedWith("ScicatCommError") =>
        /\ Len(Puts) = Len(Dset.files)
        /\ \A i \in 1..Len(Puts) : Puts[i] = TransferArgs(Dset.files[i])
        /\ Reverts = Puts
        /\ raised = Some(Propagated("ScicatCommError", "datasets_create"))

C1_Witness ==
    /\ CreateFailedWith("ScicatCommError")
    /\ Len(Puts) = 2
    /\ Puts[1] # Puts[2]
    /\ Reverts = Puts

\* C2: when datasets_create returned and datasets_origdatablock_create raised
\* ScicatCommError, no revert_put has been called, the record stays in the
\* catalog, and the caller receives a RuntimeError raised while handling that
\* ScicatCommError whose message says the dataset and files are uploaded but
\* not linked.
C2_ManifestFailureReported ==
    ManifestFailedWith("ScicatCommError") =>
        /\ Reverts = <<>>
        /\ Len(catalog.datasets) = 1
        /\ ~IsNone(raised)
        /\ The(raised).type = "RuntimeError"
        /\ The(raised).context = Some("ScicatCommError")
        /\ ~IsNone(The(raised).message)
        /\ The(The(raised).message).says = "uploaded but not linked, fix manually"

C2_Witness ==
    /\ ManifestFailedWith("ScicatCommError")
    /\ Len(Puts) = 2
    /\ Len(catalog.datasets) = 1
    /\ The(raised).type = "RuntimeError"

\* The terminal states of an upload.
NoFileRemains == SameBag(Puts, Reverts)

Uploaded ==
    /\ IsNone(raised)
    /\ Len(Puts) = Len(Dset.files)
    /\ Reverts = <<>>
    /\ Len(catalog.datasets) = 1
    /\ Len(catalog.datablocks) = 1

UploadFailed ==
    /\ ~IsNone(raised)
    /\ catalog.datasets = <<>>
    /\ NoFileRemains

Inconsistent ==
    /\ ~IsNone(raised)
    /\ Len(catalog.datasets) = 1
    /\ catalog.datablocks = <<>>

\* C3: every finished upload is Uploaded (all files placed, record and
\* manifest created), UploadFailed (no record, no placed file left without
\* its revert) or Inconsistent (record created, manifest not).
C3_TerminalStates ==
    UploadDone => (Uploaded \/ UploadFailed \/ Inconsistent)

\* C4: a dataset-creation request is sent only after every file was placed
\* without error: once a put (or the upload callable) has raised, no request
\* is sent and the caller receives that exception.
C4_CreateOnlyAfterPlacement ==
    /\ (api = "dataset" /\ CreateRequested) =>
          /\ Len(Puts) = Len(Dset.files)
          /\ FailedPuts = <<>>
    /\ FailedPuts # <<>> =>
          /\ ~CreateRequested
          /\ pc = "done"
          /\ \E e \in PutErrors : raised = Some(Propagated(e, "put"))
    /\ ingest.requests # <<>> =>
          /\ ingest.pc = "done"
          /\ ingest.upload = "FakeUpload"
          /\ \/ IsNone(ingest.raised)
             \/ The(ingest.raised).at = "replace_dataset"
    /\ (ingest.pc = "done" /\ ~IsNone(ingest.raised)
          /\ The(ingest.raised).at = "upload") =>
          /\ ingest.requests = <<>>
          /\ The(ingest.raised).type \in {"RuntimeError", "AssertionError"}

C4_Witness ==
    /\ UploadDone
    /\ Len(Puts) = 1
    /\ Len(FailedPuts) = 1
    /\ ~CreateRequested

\* C5: when the upload returned and replace_dataset raised, upload.revert has
\* been called exactly once, with the folder and files of the upload call,
\* the caller receives the exception of replace_dataset unchanged, and the
\* uploader holds the files it held before the call.
ReplaceFailed ==
    /\ ingest.pc = "done"
    /\ ingest.requests # <<>>
    /\ ~IsNone(ingest.raised)

C5_IngestCleansUp ==
    ReplaceFailed =>
        /\ ingest.reverts = <<[path |-> ingest.folder, files |-> ingest.files]>>
        /\ \E e \in ReplaceErrors :
              ingest.raised = Some(Propagated(e, "replace_dataset"))
        /\ SameBag(ingest.uploaded, ingest.before)

C5_Witness ==
    /\ ReplaceFailed
    /\ Len(ingest.files) = 2
    /\ ingest.before # <<>>
    /\ \E i \in 1..Len(ingest.files) : Count(ingest.before, ingest.files[i]) > 0

\* C6: whatever exception datasets_create raises, revert_put has been called
\* for every placed file and the caller receives that exception.
C6_RollbackOnAnyError ==
    \A e \in GatewayErrors :
        CreateFailedWith(e) =>
            /\ Reverts = Puts
            /\ raised = Some(Propagated(e, "datasets_create"))

\* The stages and File objects of a state.
Stages == {stage} \cup {prepared[i] : i \in 1..Len(prepared)}

AllFiles == UNION { {d.files[i] : i \in 1..Len(d.files)} : d \in Stages }

\* Every file has a local copy that os.stat finds.
KnownSizes(files) ==
    \A i \in 1..Len(files) :
        /\ ~IsNone(files[i].local_path)
        /\ ~IsNone(Stat(The(files[i].local_path)))

LocalSize(file) == The(Stat(The(file.local_path))).st_size

\* C7: prepare_as_new of a stage whose files all have a local copy of known
\* size returns a stage whose record has size = the sum of the files' sizes
\* (as stat reports them and as the files' metadata carry them) and
\* numberOfFiles = the number of files, and whose manifest has that size.
\* While a prepared stage is held, `stage` is the receiver it was made from.
C7_SizeAndCount ==
    /\ ~IsNone(prepared) =>
          LET d == The(prepared)
          IN  /\ KnownSizes(stage.files)
              /\ Len(d.files) = Len(stage.files)
              /\ \A i \in 1..Len(d.files) :
                    /\ ~IsNone(d.files[i].model)
                    /\ FileSize(d.files[i]) = LocalSize(stage.files[i])
              /\ d.model.size =
                    Some(SumSeq([i \in 1..Len(d.files) |-> FileSize(d.files[i])]))
              /\ d.model.numberOfFiles = Some(Len(stage.files))
              /\ ~IsNone(d.datablock)
              /\ The(d.datablock).size =
                    SumSeq([i \in 1..Len(stage.files) |-> LocalSize(stage.files[i])])
    /\ (~IsNone(raised) /\ The(raised).at = "prepare_as_new") =>
          ~KnownSizes(stage.files)

C7_Witness ==
    /\ Idle
    /\ ~IsNone(prepared)
    /\ Len(stage.files) = 2
    /\ stage.model.size = Some(168456)
    /\ The(prepared).model.size = Some(9876 + 123)
    /\ The(prepared).model.numberOfFiles = Some(2)

\* C8: whenever a stage has a manifest, its record's size is the sum of its
\* files' sizes, its numberOfFiles the length of its file list, and the
\* manifest lists one entry per file.
C8_DerivedFromFiles ==
    \A d \in Stages :
        ~IsNone(d.datablock) =>
            /\ \A i \in 1..Len(d.files) : ~IsNone(d.files[i].model)
            /\ d.model.size =
                  Some(SumSeq([i \in 1..Len(d.files) |-> FileSize(d.files[i])]))
            /\ d.model.numberOfFiles = Some(Len(d.files))
            /\ Len(The(d.datablock).dataFileList) = Len(d.files)

\* C9: a stage prepare_as_new has returned carries as storage location the
\* one source_folder its receiver's files share; when the files carry none,
\* or two distinct ones, no stage is returned.
C9_LocationResolved ==
    (Idle /\ ~IsNone(prepared)) =>
        LET r == ensure_source_folder(stage.files, None)
        IN  /\ r.ok
            /\ The(prepared).model.sourceFolder = Some(r.folder)

\* C10: for every File, remote_access_path is None exactly when source_folder
\* is None, and otherwise is source_folder / source_path; the remote path
\* handed to put and revert_put is such a path.
C10_RemoteAccessPath ==
    /\ \A f \in AllFiles :
          /\ IsNone(remote_access_path(f)) <=> IsNone(f.source_folder)
          /\ ~IsNone(f.source_folder) =>
                remote_access_path(f) =
                   Some(PathJoin(The(f.source_folder), f.source_path))
    /\ \A i \in 1..Len(Puts) :
          Puts[i].remote =
             Some(PathJoin(The(uploader).remote_upload_path,
                           Dset.files[i].source_path))

C10_Witness ==
    /\ \E f \in AllFiles :
          /\ IsNone(f.local_path)
          /\ remote_access_path(f) =
                Some(Path(Str(TRUE, <<"remote", "source", "sub", "file2.nxs">>)))
    /\ \E f \in AllFiles :
          /\ ~IsNone(f.local_path)
          /\ ~IsNone(f.model)
          /\ remote_access_path(f) =
                Some(Path(Str(TRUE, <<"remote", "upload", "sub", "run.log">>)))

\* The keys of a record's scientificMetadata field, read off the record.
FieldKeys(model) ==
    IF IsNone(model.scientificMetadata)
    THEN <<>>
    ELSE [i \in 1..Len(The(model.scientificMetadata)) |->
             The(model.scientificMetadata)[i].key]

\* The values the record's scientificMetadata field holds under a key.
FieldValues(model, key) ==
    IF IsNone(model.scientificMetadata)
    THEN {}
    ELSE { The(model.scientificMetadata)[i].value :
             i \in { j \in 1..Len(The(model.scientificMetadata)) :
                        The(model.scientificMetadata)[j].key = key } }

InSeq(x, seq) == \E i \in 1..Len(seq) : seq[i] = x

KeyErrorAt(at) ==
    /\ ~IsNone(raised)
    /\ The(raised).type = "KeyError"
    /\ The(raised).at = at

\* C11: dset.meta is a view of the record's scientificMetadata field.  After
\* meta[key] = value, the map and the field both hold value under key; on a
\* null field the write leaves a one-entry mapping; a new key goes last in
\* the iteration order and a known key keeps its place.  After del
\* meta[key] of a key that was present, neither the map nor the field holds
\* it and the other keys keep their order.  A get returns what the field
\* holds.  A get or a delete of a key that is missing, on a null field too,
\* raises KeyError and leaves the record as it was.
C11_MetadataMapView ==
    /\ observed.op = "meta_set" =>
          /\ IsNone(raised)
          /\ getitem(stage.model, observed.key)
                 = [ok |-> TRUE, value |-> observed.value]
          /\ FieldValues(stage.model, observed.key) = {observed.value}
          /\ IsNone(observed.before.scientificMetadata) =>
                 stage.model.scientificMetadata
                    = Some(<<[key |-> observed.key, value |-> observed.value]>>)
          /\ meta_iter(stage.model) = FieldKeys(stage.model)
          /\ FieldKeys(stage.model)
                 = IF InSeq(observed.key, FieldKeys(observed.before))
                   THEN FieldKeys(observed.before)
                   ELSE Append(FieldKeys(observed.before), observed.key)
    /\ observed.op = "meta_del" =>
          IF InSeq(observed.key, FieldKeys(observed.before))
          THEN /\ IsNone(raised)
               /\ ~getitem(stage.model, observed.key).ok
               /\ ~InSeq(observed.key, meta_iter(stage.model))
               /\ FieldValues(stage.model, observed.key) = {}
               /\ FieldKeys(stage.model)
                      = SelectSeq(FieldKeys(observed.before),
                                  LAMBDA key : key # observed.key)
          ELSE /\ KeyErrorAt("__delitem__")
               /\ stage.model = observed.before
    /\ observed.op = "meta_get" =>
          /\ stage.model = observed.before
          /\ IF InSeq(observed.key, FieldKeys(observed.before))
             THEN /\ IsNone(raised)
                  /\ ~IsNone(observed.result)
                  /\ FieldValues(stage.model, observed.key)
                         = {The(observed.result)}
             ELSE KeyErrorAt("__getitem__")

\* A key deleted after two were set on a field that was null at first: the
\* key set second is what the map and the field are left with.
C11_Witness ==
    /\ observed.op = "meta_del"
    /\ IsNone(raised)
    /\ IsNone(origin.model.scientificMetadata)
    /\ FieldKeys(observed.before) = <<"a", "b">>
    /\ observed.key = "a"
    /\ meta_iter(stage.model) = <<"b">>
    /\ stage.model.scientificMetadata
          = Some(<<[key |-> "b", value |-> "-1.2 s"]>>)

AttributeErrorAt(at) ==
    /\ ~IsNone(raised)
    /\ The(raised).type = "AttributeError"
    /\ The(raised).at = at

DerivedFields == { "size", "numberOfFiles" }

\* C12: reading dset.size or dset.numberOfFiles raises AttributeError, and
\* so does assigning either; after the rejected assignment the record holds
\* what it held before.
C12_DerivedFieldsNotAccessible ==
    /\ (observed.op = "getattr" /\ observed.field \in DerivedFields) =>
          /\ AttributeErrorAt("getattr")
          /\ IsNone(observed.result)
          /\ stage.model = observed.before
    /\ (observed.op = "setattr" /\ observed.field \in DerivedFields) =>
          /\ AttributeErrorAt("setattr")
          /\ stage.model = observed.before

\* dset.size = 1 was rejected on a stage whose record carries another size.
C12_Witness ==
    /\ observed.op = "setattr"
    /\ observed.field = "size"
    /\ AttributeErrorAt("setattr")
    /\ stage.model.size = Some(168456)
    /\ observed.value = Some(1)

\* C16: an assignment to a field that is not excluded changes that field of
\* the record and no other; assigned to a stage as new(base) made it, every
\* other field still has the value of the base record.
C16_SetOneField ==
    (observed.op = "setattr" /\ observed.field \notin Excluded) =>
        /\ IsNone(raised)
        /\ stage.model[observed.field] = observed.value
        /\ \A f \in ModelFields \ {observed.field} :
              stage.model[f] = observed.before[f]
        /\ ( /\ origin.by = "new"
             /\ origin.kwargs = NoKwargs
             /\ observed.before = new(origin.model, origin.kwargs).model ) =>
              \A f \in ModelFields \ {observed.field} :
                  stage.model[f] = origin.model[f]

\* dset.owner = "marvin" on the stage new(derived_dataset) returned.
C16_Witness ==
    /\ observed.op = "setattr"
    /\ observed.field = "owner"
    /\ origin = ByNew([model |-> FixtureModel, kwargs |-> NoKwargs])
    /\ observed.before = FixtureModel
    /\ stage.model.owner = Some("marvin")
    /\ stage.model.ownerGroup = FixtureModel.ownerGroup
    /\ stage.model # observed.before

Fetched == observed.op = "from_scicat"

\* C13: when the catalog returns more than one orig datablock for the
\* dataset, from_scicat raises NotImplementedError and returns no stage;
\* the caller holds what it held.
C13_SeveralDatablocksUnsupported ==
    (Fetched /\ Len(observed.dblocks) > 1) =>
        /\ ~IsNone(raised)
        /\ The(raised).type = "NotImplementedError"
        /\ IsNone(observed.result)
        /\ stage = observed.held

\* Two orig datablocks were returned to a caller that holds a new stage.
C13_Witness ==
    /\ Fetched
    /\ Len(observed.dblocks) = 2
    /\ observed.dblocks[1] # observed.dblocks[2]
    /\ ~IsNone(raised)
    /\ origin.by = "new"

\* C14: when the catalog returns exactly one orig datablock, from_scicat
\* returns a stage that has one File per entry of its dataFileList, in that
\* order, each without local_path, with the entry's path as source_path,
\* the record's sourceFolder as source_folder, the two joined as
\* remote_access_path and the entry as model; the stage's datablock is
\* there and lists the same entries, and the record is the one returned.
C14_FetchedStage ==
    (Fetched /\ Len(observed.dblocks) = 1) =>
        LET entries == observed.dblocks[1].dataFileList
            folder  == Path(The(observed.dataset.sourceFolder))
        IN  /\ IsNone(raised)
            /\ observed.result = Some(stage)
            /\ stage.model = observed.dataset
            /\ Len(stage.files) = Len(entries)
            /\ \A i \in 1..Len(entries) :
                  /\ IsNone(stage.files[i].local_path)
                  /\ stage.files[i].source_path = Path(entries[i].path)
                  /\ stage.files[i].source_folder = Some(folder)
                  /\ remote_access_path(stage.files[i])
                        = Some(PathJoin(folder, Path(entries[i].path)))
                  /\ stage.files[i].model = Some(entries[i])
            /\ ~IsNone(stage.datablock)
            /\ The(stage.datablock).dataFileList = entries

\* The fetch of test_dataset_from_scicat: two entries, in order, under
\* /remote/source.
C14_Witness ==
    /\ Fetched
    /\ Len(observed.dblocks) = 1
    /\ Len(stage.files) = 2
    /\ remote_access_path(stage.files[1])
          = Some([abs |-> TRUE, parts |-> <<"remote", "source", "file1.nxs">>])
    /\ remote_access_path(stage.files[2])
          = Some([abs |-> TRUE,
                  parts |-> <<"remote", "source", "sub", "file2.nxs">>])
    /\ IsNone(stage.files[1].local_path)
    /\ origin = ByFromScicat

\* C15: the stage new returns has no files and no datablock; a stage made
\* by new has no datablock whatever add_files, add_local_files, field
\* assignments and dset.meta writes followed; a stage that has a datablock
\* was returned by prepare_as_new or by from_scicat.
C15_DatablockOnlyByPrepareOrFetch ==
    /\ observed = JustMade =>
          /\ stage.files = <<>>
          /\ IsNone(stage.datablock)
    /\ origin.by = "new" => IsNone(stage.datablock)
    /\ ~IsNone(stage.datablock) =>
          origin.by \in {"prepare_as_new", "from_scicat"}
    /\ ~IsNone(prepared) => ~IsNone(The(prepared).datablock)

\* A stage made by new that has since got a file from add_files, one from
\* add_local_files, an owner and a metadata entry.
C15_Witness ==
    /\ origin.by = "new"
    /\ IsNone(stage.datablock)
    /\ \E i, j \in 1..Len(stage.files) :
          /\ IsNone(stage.files[i].local_path)
          /\ ~IsNone(stage.files[j].local_path)
    /\ stage.model.owner = Some("marvin")
    /\ stage.model.owner # origin.model.owner
    /\ FieldKeys(stage.model) # <<>>

\* A file that has no local copy to stat: no local_path, or none on disk.
NoLocalCopy(file) ==
    \/ IsNone(file.local_path)
    \/ IsNone(Stat(The(file.local_path)))

PrepareFailed ==
    /\ ~IsNone(raised)
    /\ The(raised).at = "prepare_as_new"

\* C17: prepare_as_new computes the model of exactly the files that have
\* none and keeps the model of every other file; it raises if and only if
\* some file of the receiver has neither a local copy nor a model, so a
\* receiver whose files all have a model and no local copy gets a stage
\* back; with_model_from_local_file raises for a File without local_path.
C17_PrepareOnlyMissingModels ==
    /\ ~IsNone(prepared) =>
          \A i \in 1..Len(stage.files) :
              ~IsNone(stage.files[i].model) =>
                  The(prepared).files[i].model = stage.files[i].model
    /\ PrepareFailed =>
          \E i \in 1..Len(stage.files) :
              IsNone(stage.files[i].model) /\ NoLocalCopy(stage.files[i])
    /\ ~IsNone(prepared) =>
          \A i \in 1..Len(stage.files) :
              ~(IsNone(stage.files[i].model) /\ NoLocalCopy(stage.files[i]))
    /\ \A f \in AllFiles :
          IsNone(f.local_path) => ~with_model_from_local_file(f).ok

\* C18: in upload_new_dataset_now the files are put one at a time in the
\* order of dset.files: the i-th put that returned is that of the i-th
\* file, with its local_path and with remote_upload_path / source_path as
\* remote path, the file's source_folder being remote_upload_path by then;
\* no file is put twice and nothing is put after a put has raised; the
\* record handed to datasets_create has remote_upload_path as sourceFolder.
C18_PutsInOrder ==
    ~IsNone(uploader) =>
        LET base  == The(uploader).remote_upload_path
            files == Dset.files
        IN  /\ Len(Puts) = k
            /\ Len(Puts) + Len(FailedPuts) <= Len(files)
            /\ \A i \in 1..Len(Puts) :
                  /\ Puts[i].local = files[i].local_path
                  /\ Puts[i].remote = Some(PathJoin(base, files[i].source_path))
                  /\ files[i].source_folder = Some(base)
            /\ Len(FailedPuts) <= 1
            /\ FailedPuts # <<>> =>
                  /\ pc = "done"
                  /\ FailedPuts[1].local = files[k + 1].local_path
                  /\ FailedPuts[1].remote
                        = Some(PathJoin(base, files[k + 1].source_path))
                  /\ ~CreateRequested
            /\ CreateRequested => Len(Puts) = Len(files)
            /\ Dset.model.sourceFolder = Some(StrOfPath(base))
            /\ \A j \in 1..Len(catalog.datasets) :
                  catalog.datasets[j].sourceFolder = Some(StrOfPath(base))

\* Two files were put and the record created; the first file had another
\* source_folder on the stage upload was called on.
C18_Witness ==
    /\ ~IsNone(uploader)
    /\ Len(Puts) = 2
    /\ Puts[1] # Puts[2]
    /\ Len(catalog.datasets) = 1
    /\ target = "prepared"
    /\ ~IsNone(stage.files[1].source_folder)
    /\ stage.files[1].source_folder # Some(The(uploader).remote_upload_path)
    /\ IsNone(stage.files[2].source_folder)

\* The calls of datasets_origdatablock_create made so far.
ManifestRequests ==
    Len(catalog.datablocks)
    + Cardinality({ i \in 1..Len(catalog.errors) :
                      catalog.errors[i].call = "datasets_origdatablock_create" })

CreateFailed ==
    \E i \in 1..Len(catalog.errors) : catalog.errors[i].call = "datasets_create"

\* C19: datasets_origdatablock_create is called at most once, and only when
\* datasets_create has returned; the datablock it is given, and the one the
\* catalog stores, carry as datasetId the pid datasets_create returned;
\* when datasets_create has raised it is not called.
C19_ManifestAfterRecord ==
    /\ ManifestRequests <= 1
    /\ CreateFailed => ManifestRequests = 0
    /\ (pc = "manifest" \/ ManifestRequests > 0) =>
          /\ Len(catalog.datasets) = 1
          /\ ~CreateFailed
          /\ The(Dset.datablock).datasetId = The(catalog.datasets[1].pid)
    /\ \A j \in 1..Len(catalog.datablocks) :
          catalog.datablocks[j].datasetId = The(catalog.datasets[1].pid)

\* The catalog stored the record under a pid of its own and then the
\* datablock, which names that pid and not the one generated locally.
C19_Witness ==
    /\ UploadDone
    /\ Len(catalog.datablocks) = 1
    /\ catalog.datasets[1].pid # The(uploader).dataset_id
    /\ catalog.datablocks[1].datasetId = The(catalog.datasets[1].pid)
    /\ catalog.datablocks[1].datasetId # The(The(uploader).dataset_id)

\* What prepare_as_new computes for a stage.
Derived(dset) ==
    [ pid           |-> dset.model.pid,
      size          |-> dset.model.size,
      numberOfFiles |-> dset.model.numberOfFiles,
      dataFileList  |-> The(dset.datablock).dataFileList ]

\* C20: upload_new_dataset_now calls prepare_as_new exactly when the stage
\* has no datablock.  For such a stage the call leaves the stage alone and
\* goes on, before any put, with a new stage that has a new pid, a model
\* for every file and a datablock (or ends with the exception of
\* prepare_as_new).  A stage that has a datablock is itself what is
\* uploaded, with no new pid generated.  From then on the pid, size,
\* numberOfFiles and the datablock's dataFileList of what is uploaded are
\* never written.
C20_PrepareIffNoDatablock ==
    [][ /\ (api = "dataset" /\ pc = "idle" /\ pc' # "idle") =>
             IF IsNone(stage.datablock)
             THEN /\ stage' = stage
                  /\ Puts' = <<>>
                  /\ IF IsNone(raised')
                     THEN /\ target' = "prepared"
                          /\ uuids' = uuids + 1
                          /\ ~IsNone(prepared')
                          /\ The(prepared').model.pid = Some(uuid4(uuids'))
                          /\ ~IsNone(The(prepared').datablock)
                          /\ \A i \in 1..Len(The(prepared').files) :
                                ~IsNone(The(prepared').files[i].model)
                     ELSE /\ The(raised').at = "prepare_as_new"
                          /\ IsNone(uploader')
                          /\ prepared' = prepared
             ELSE /\ IsNone(raised')
                  /\ target' = "self"
                  /\ uuids' = uuids
                  /\ prepared' = prepared
                  /\ Puts' = <<>>
                  /\ stage'.files = stage.files
                  /\ stage'.datablock = stage.datablock
                  /\ Derived(stage') = Derived(stage)
        /\ (api = "dataset" /\ pc \notin {"idle", "done"}) =>
             /\ target' = target
             /\ uuids' = uuids
             /\ Derived(Dset') = Derived(Dset)
      ]_vars

\* A stage that prepare_as_new returned and that got a second file since is
\* being uploaded as it is: its numberOfFiles still says one.
C20_Witness ==
    /\ api = "dataset"
    /\ target = "self"
    /\ Len(Puts) = 2
    /\ origin.by = "prepare_as_new"
    /\ Len(stage.files) = 2
    /\ stage.model.numberOfFiles = Some(1)
    /\ Len(The(stage.datablock).dataFileList) = 1
    /\ uuids = 1

\* The stage prepare_as_new has just returned, against its receiver: the
\* same files in the same order, each with a model; the datablock lists
\* these models in that order and carries the new pid of the record and the
\* record's ownerGroup and accessGroups.
PreparedManifest ==
    (Idle /\ ~IsNone(prepared)) =>
        LET p  == The(prepared)
            db == The(p.datablock)
        IN  /\ Len(p.files) = Len(stage.files)
            /\ Len(db.dataFileList) = Len(stage.files)
            /\ \A i \in 1..Len(stage.files) :
                  /\ p.files[i].source_path = stage.files[i].source_path
                  /\ p.files[i].local_path = stage.files[i].local_path
                  /\ p.files[i].model = Some(db.dataFileList[i])
                  /\ db.dataFileList[i].path
                        = StrOfPath(stage.files[i].source_path)
                  /\ db.dataFileList[i].size = LocalSize(stage.files[i])
            /\ p.model.pid = Some(uuid4(uuids))
            /\ p.model.pid # stage.model.pid
            /\ db.datasetId = The(p.model.pid)
            /\ db.ownerGroup = p.model.ownerGroup
            /\ db.accessGroups = p.model.accessGroups
            /\ p.model.ownerGroup = stage.model.ownerGroup
            /\ p.model.accessGroups = stage.model.accessGroups

\* C21: add_files and add_local_files append what they are given to the
\* stage's files, in call order, whether or not the stage has such a file
\* already; the stage prepare_as_new returns has a datablock that lists the
\* models of exactly the receiver's files in that order, with the record's
\* new pid as datasetId and the record's ownerGroup and accessGroups.
C21_ManifestListsFilesInOrder ==
    [][ /\ PreparedManifest
        /\ PreparedManifest'
        /\ AddFiles =>
              \E file \in CallerFiles :
                  /\ Len(stage'.files) = Len(stage.files) + 1
                  /\ stage'.files = stage.files \o <<file>>
        /\ AddLocalFiles =>
              \E paths \in SeqsUpTo(CallerPathStrs, MaxFiles),
                 relative_to \in CallerRelativeTos :
                  /\ Len(stage'.files) = Len(stage.files) + Len(paths)
                  /\ SubSeq(stage'.files, 1, Len(stage.files)) = stage.files
                  /\ \A i \in 1..Len(paths) :
                        /\ stage'.files[Len(stage.files) + i].local_path
                              = Some(Path(paths[i]))
                        /\ stage'.files[Len(stage.files) + i].source_path
                              = PathJoin(Path(relative_to), PathName(paths[i]))
      ]_vars

\* prepare_as_new has returned for a receiver that got dir/events.nxs and
\* then ./run.log: the datablock lists them in that order.
C21_Witness ==
    /\ Idle
    /\ ~IsNone(prepared)
    /\ Len(stage.files) = 2
    /\ The(The(prepared).datablock).dataFileList[1].size = 9876
    /\ The(The(prepared).datablock).dataFileList[2].size = 123
    /\ The(The(prepared).datablock).datasetId = uuid4(1)
    /\ The(The(prepared).datablock).ownerGroup = stage.model.ownerGroup

\* C22: prepare_as_new called with a target_folder returns a stage whose
\* files all have that folder as source_folder, whatever they had before,
\* and whose record has it as sourceFolder in place of the placeholder.
C22_TargetFolderUsed ==
    observed.op = "prepare_as_new" =>
        /\ IsNone(raised)
        /\ ~IsNone(prepared)
        /\ \A i \in 1..Len(The(prepared).files) :
              The(prepared).files[i].source_folder
                 = Some(Path(observed.target_folder))
        /\ The(prepared).model.sourceFolder = Some(observed.target_folder)
        /\ The(prepared).model.sourceFolder # Some(PlaceholderFolder)

\* C23: prepare_as_new and with_model_from_local_file write nothing to
\* their receiver.  A step in which a prepared stage appears or is written,
\* a step in which prepare_as_new raises, and every step of an upload that
\* works on a prepared stage leave the caller's stage as it was: its
\* datablock (none, for a stage made by new), its record and its files
\* with their models and source_folders.
C23_ReceiverUntouched ==
    [][ /\ (prepared' # prepared /\ ~IsNone(prepared')) =>
              /\ stage' = stage
              /\ origin.by = "new" => IsNone(stage'.datablock)
        /\ ( /\ raised' # raised
             /\ ~IsNone(raised')
             /\ The(raised').at = "prepare_as_new" ) =>
              /\ stage' = stage
              /\ prepared' = prepared
        /\ (api = "dataset" /\ target' = "prepared") => stage' = stage
      ]_vars

\* An upload of a stage made by new has failed after a put: the stage
\* prepare_as_new made has a model and the remote source_folder on its
\* first file, the caller's stage has neither and no datablock.
C23_Witness ==
    /\ UploadDone
    /\ target = "prepared"
    /\ ~IsNone(raised)
    /\ Len(Puts) > 0
    /\ IsNone(stage.datablock)
    /\ IsNone(stage.files[1].model)
    /\ IsNone(stage.files[1].source_folder)
    /\ ~IsNone(The(prepared).files[1].model)
    /\ ~IsNone(The(prepared).files[1].source_folder)
    /\ stage.model.sourceFolder # The(prepared).model.sourceFolder
    /\ stage.model.pid # The(prepared).model.pid

\* C24: from_scicat returns a stage only when the catalog returned exactly
\* one orig datablock.  When it returned none, from_scicat raises the
\* NotImplementedError it raises for two or more, from the same place, and
\* returns no stage: the caller holds what it held.
C24_NoDatablockUnsupported ==
    /\ (Fetched /\ Len(observed.dblocks) = 0) =>
          /\ raised = Some(Propagated("NotImplementedError",
                                      "_get_orig_datablock"))
          /\ IsNone(observed.result)
          /\ stage = observed.held
    /\ (Fetched /\ ~IsNone(observed.result)) => Len(observed.dblocks) = 1
    /\ (Fetched /\ Len(observed.dblocks) # 1) =>
          raised = Some(Propagated("NotImplementedError",
                                   "_get_orig_datablock"))

\* The catalog returned no orig datablock to a caller that held a stage it
\* had fetched before.
C24_Witness ==
    /\ Fetched
    /\ observed.dblocks = <<>>
    /\ IsNone(observed.result)
    /\ ~IsNone(raised)
    /\ origin = ByFromScicat
    /\ stage.files # <<>>

\* upload_new_dataset_now has returned dset.
UploadReturned == UploadDone /\ IsNone(raised) /\ ~IsNone(uploader)

\* C25: the stage upload_new_dataset_now returns has as record pid the pid
\* datasets_create returned, and that pid is the datasetId of its
\* datablock, whichever pid the catalog chose.
C25_ReturnedStageConsistent ==
    UploadReturned =>
        /\ Dset.model.pid = catalog.datasets[1].pid
        /\ Dset.model.pid = Some(The(Dset.datablock).datasetId)
====
